---- MODULE Spec2Model ----
(***************************************************************************)
(* A model of cropped: overlay::combine stamps every page of a manuscript  *)
(* PDF onto an A4 canvas (overlay.rs), after embedding one font (fonts.rs).*)
(*                                                                         *)
(* The document is lopdf's object store: a map from object id to Object,   *)
(* and the counter max_id that add_object increments.  Lengths are f64 in  *)
(* the program; here they are integers counting 1/Pt of a point, which is  *)
(* exact for every length the model draws (multiples of 0.05 pt).          *)
(***************************************************************************)
EXTENDS Integers, Sequences, FiniteSets, TLC

VARIABLES
    manuscript,     \* the input file: one description per page (see Inputs)
    trim_width,     \* combine's trim_width argument, in 1/Pt points
    trim_height,    \* combine's trim_height argument, in 1/Pt points
    pc,             \* position in combine
    objects,        \* manuscript_document.objects
    max_id,         \* manuscript_document.max_id
    font_id,        \* id returned by embed_font
    char_width,     \* width returned by embed_font, in 1/Milli em
    page_ids,       \* the Vec collected from page_iter()
    index,          \* number of loop iterations completed
    calls,          \* the page ids stamp_page has been called with, in order
    compressed,     \* number of times compress() has run
    output,         \* the object store written by save (empty until then)
    saved,          \* TRUE once save has been called
    result          \* "running", "ok" or the step whose error combine returned

vars == <<manuscript, trim_width, trim_height, pc, objects, max_id, font_id,
          char_width, page_ids, index, calls, compressed, output, saved, result>>

-----------------------------------------------------------------------------
(* Bounds of the model *)

MaxPages == 5

\* files of more pages than this are combined with the trade trim size only
MaxOtherTrimPages == 2

-----------------------------------------------------------------------------
(* Units and program constants *)

Pt == 20            \* model units per PDF point
Milli == 1000       \* model units per em of char_width

A4Width == 595
A4Height == 842
TradeWidth == 432
TradeHeight == 648

-----------------------------------------------------------------------------
(* lopdf::Object *)

Integer(i) == [type |-> "Integer", i |-> i]
Real(r) == [type |-> "Real", r |-> r]
Name(n) == [type |-> "Name", name |-> n]
Str(s) == [type |-> "String", s |-> s]
Ref(id) == [type |-> "Reference", id |-> id]
Arr(a) == [type |-> "Array", arr |-> a]
Dict(d) == [type |-> "Dictionary", dict |-> d]
Stream(d, c) == [type |-> "Stream", dict |-> d, content |-> c]

EmptyDict == [k \in {} |-> Integer(0)]

\* Dictionary::set
DictSet(d, key, value) == [k \in DOMAIN d \cup {key} |-> IF k = key THEN value ELSE d[k]]

\* Stream::new: the dictionary gets the content's Length (counted in tokens here)
StreamNew(d, c) == Stream(DictSet(d, "Length", Integer(Len(c))), c)

\* Dictionary::extend as the program uses it, on a dictionary just created empty
DictExtend(d, other) ==
    [k \in DOMAIN d \cup DOMAIN other |-> IF k \in DOMAIN other THEN other[k] ELSE d[k]]

\* Content::encode: each operation is written operands first, operator last
Operation(operator, operands) == [operator |-> operator, operands |-> operands]
Op(operator) == [type |-> "Operator", op |-> operator]

RECURSIVE Encode(_)
Encode(ops) ==
    IF ops = <<>> THEN <<>>
    ELSE Head(ops).operands \o <<Op(Head(ops).operator)>> \o Encode(Tail(ops))

\* Document as a value, for the functions that take &mut Document
Doc(objs, max) == [objects |-> objs, max_id |-> max]

\* a slip: the id is taken before max_id is incremented
AddObjectStaleId(doc, value) ==
    [objects |-> (doc.max_id :> value) @@ doc.objects, max_id |-> doc.max_id + 1]

\* Document::add_object: the next id is max_id + 1
AddObject(doc, value) ==
    [objects |-> ((doc.max_id + 1) :> value) @@ doc.objects, max_id |-> doc.max_id + 1]

\* Document::get_object
HasObject(doc, id) == id \in DOMAIN doc.objects

-----------------------------------------------------------------------------
(* The input file.  Document::load reads it into the object store.  A file  *)
(* is described by its pages; every file holds the same shared objects      *)
(* (content streams, images, resource tables) that the pages may refer to.  *)

Absent == [type |-> "Absent"]

Box(a, b, c, d) == Arr(<<Integer(a), Integer(b), Integer(c), Integer(d)>>)

\* A reference to an id that is in no file and that add_object never mints
DanglingRef == Ref(0)

MediaBoxes ==
    { Absent,
      Box(0, 0, TradeWidth, TradeHeight),
      Box(10, 20, 10 + TradeWidth, 20 + TradeHeight),
      Box(0, 0, 612, 792),
      Arr(<<Real(0), Real(0), Real(450 * Pt + Pt \div 2), Real(666 * Pt)>>),
      Arr(<<Integer(0), Integer(0), Integer(TradeWidth)>>),
      Arr(<<Integer(0), Integer(0), Name("w"), Integer(TradeHeight)>>),
      Ref(3) }

ContentsValues ==
    { Absent, Ref(3), Arr(<<Ref(3), Ref(4)>>), Arr(<<>>), Integer(0) }

ResourcesValues ==
    { Absent,
      Dict([k \in {"Font"} |-> Dict([n \in {"F1"} |-> Ref(9)])]),
      Dict([k \in {"Font", "XObject"} |->
              IF k = "Font" THEN Dict([n \in {"F1"} |-> Ref(9)])
              ELSE Dict([n \in {"Im1"} |-> Ref(5)])]),
      Dict([k \in {"XObject"} |->
              Dict([n \in {"Im1", "Overlay"} |-> IF n = "Im1" THEN Ref(5) ELSE Ref(6)])]),
      Ref(7),
      Dict([k \in {"XObject"} |-> DanglingRef]),
      Dict([k \in {"XObject"} |-> Integer(0)]),
      Ref(3),
      DanglingRef }

PageInput(m, c, r) == [mediabox |-> m, contents |-> c, resources |-> r]

\* every single page
AllPages ==
    { PageInput(m, c, r) : m \in MediaBoxes, c \in ContentsValues, r \in ResourcesValues }

\* the pages that files of several pages are made of
BatchPages ==
    { PageInput(Box(0, 0, TradeWidth, TradeHeight), Ref(3),
                Dict([k \in {"XObject"} |-> Dict([n \in {"Im1"} |-> Ref(5)])])),
      PageInput(Box(10, 20, 10 + TradeWidth, 20 + TradeHeight),
                Arr(<<Ref(3), Ref(4)>>), Ref(7)),
      PageInput(Arr(<<Real(0), Real(0), Real(450 * Pt + Pt \div 2), Real(666 * Pt)>>),
                Absent,
                Dict([k \in {"XObject"} |->
                   Dict([n \in {"Im1", "Overlay"} |-> IF n = "Im1" THEN Ref(5) ELSE Ref(6)])])),
      PageInput(Absent, Ref(3), Absent) }

Inputs ==
    { <<p>> : p \in AllPages }
      \cup UNION { [1..n -> BatchPages] : n \in 0..MaxPages }

\* ids of the file's objects: 1..9 are shared, 10 is free, pages follow
PageIdOf(i) == 10 + i

PageDict(p) ==
    LET keys == {"Type", "Parent"}
                  \cup (IF p.mediabox = Absent THEN {} ELSE {"MediaBox"})
                  \cup (IF p.contents = Absent THEN {} ELSE {"Contents"})
                  \cup (IF p.resources = Absent THEN {} ELSE {"Resources"})
    IN Dict([k \in keys |->
               CASE k = "Type" -> Name("Page")
                 [] k = "Parent" -> Ref(2)
                 [] k = "MediaBox" -> p.mediabox
                 [] k = "Contents" -> p.contents
                 [] k = "Resources" -> p.resources])

SharedObject(id, ms) ==
    CASE id = 1 -> Dict([k \in {"Type", "Pages"} |->
                           IF k = "Type" THEN Name("Catalog") ELSE Ref(2)])
      [] id = 2 -> Dict([k \in {"Type", "Kids", "Count"} |->
                           CASE k = "Type" -> Name("Pages")
                             [] k = "Kids" -> Arr([i \in 1..Len(ms) |-> Ref(PageIdOf(i))])
                             [] k = "Count" -> Integer(Len(ms))])
      [] id = 3 -> StreamNew(EmptyDict, <<Name("Im1"), Op("Do")>>)
      [] id = 4 -> StreamNew(EmptyDict, <<Name("Overlay"), Op("Do")>>)
      [] id = 5 -> StreamNew([k \in {"Type", "Subtype"} |->
                             IF k = "Type" THEN Name("XObject") ELSE Name("Image")],
                          <<Str("pixels")>>)
      [] id = 6 -> StreamNew([k \in {"Type", "Subtype"} |->
                             IF k = "Type" THEN Name("XObject") ELSE Name("Form")],
                          <<Op("f")>>)
      [] id = 7 -> Dict([k \in {"XObject"} |-> Ref(8)])
      [] id = 8 -> Dict([n \in {"Im1", "Overlay"} |->
                           IF n = "Im1" THEN Ref(5) ELSE Ref(6)])
      [] id = 9 -> Dict([k \in {"Type"} |-> Name("Font")])

\* Document::load
LoadedObjects(ms) ==
    [id \in (1..9) \cup { PageIdOf(i) : i \in 1..Len(ms) } |->
        IF id <= 9 THEN SharedObject(id, ms) ELSE PageDict(ms[id - 10])]

LoadedMaxId(ms) == PageIdOf(Len(ms))

\* Document::page_iter: the Kids of the page tree's root, in order
PageIter(objs) ==
    LET kids == objs[objs[1].dict["Pages"].id].dict["Kids"].arr
    IN [i \in 1..Len(kids) |-> kids[i].id]

-----------------------------------------------------------------------------
(* overlay.rs: the overlay's drawing operations *)

generate_crop_marks(content_x, content_y, content_width, content_height) ==
    LET mark_length == 20 * Pt
        mark_offset == 5 * Pt
        left == content_x
        right == content_x + content_width
        bottom == content_y
        top == content_y + content_height
        Line(x1, y1, x2, y2) ==
            << Operation("m", <<Real(x1), Real(y1)>>),
               Operation("l", <<Real(x2), Real(y2)>>),
               Operation("S", <<>>) >>
    IN  << Operation("w", <<Real(Pt \div 2)>>), Operation("G", <<Integer(0)>>) >>
        \o Line(left - mark_offset - mark_length, bottom, left - mark_offset, bottom)
        \o Line(left, bottom - mark_offset - mark_length, left, bottom - mark_offset)
        \o Line(right + mark_offset, bottom, right + mark_offset + mark_length, bottom)
        \o Line(right, bottom - mark_offset - mark_length, right, bottom - mark_offset)
        \o Line(left - mark_offset - mark_length, top, left - mark_offset, top)
        \o Line(left, top + mark_offset, left, top + mark_offset + mark_length)
        \o Line(right + mark_offset, top, right + mark_offset + mark_length, top)
        \o Line(right, top + mark_offset, right, top + mark_offset + mark_length)

\* 28.35 points, 1cm
Margin == (2835 * Pt) \div 100

generate_datetime(timestamp, font_name) ==
    << Operation("BT", <<>>),
       Operation("Tf", <<Name(font_name), Integer(10)>>),
       Operation("Td", <<Real(Margin), Real(Margin)>>),
       Operation("Tj", <<Str(timestamp)>>),
       Operation("ET", <<>>) >>

\* format!("{}", page_num).len()
RECURSIVE DecimalLen(_)
DecimalLen(n) == IF n < 10 THEN 1 ELSE 1 + DecimalLen(n \div 10)

generate_page_number(page_num, page_width, font_name, width) ==
    LET font_size == 10
        text_width == (DecimalLen(page_num) * width * font_size * Pt) \div Milli
        x_pos == page_width - Margin - text_width
    IN  << Operation("BT", <<>>),
           Operation("Tf", <<Name(font_name), Integer(10)>>),
           Operation("Td", <<Real(x_pos), Real(Margin)>>),
           Operation("Tj", <<Str(ToString(page_num))>>),
           Operation("ET", <<>>) >>

\* Returns the document with the Form XObject added; its id is the new max_id
create_overlay_xobject(doc, page_num, trim_x, trim_y, tw, th, font, width, timestamp) ==
    LET ops == generate_crop_marks(trim_x, trim_y, tw, th)
                 \o generate_datetime(timestamp, "F1")
                 \o generate_page_number(page_num, A4Width * Pt, "F1", width)
        font_dict == DictSet(EmptyDict, "F1", Ref(font))
        doc1 == AddObject(doc, Dict(font_dict))
        font_dict_id == doc1.max_id
        resources == [k \in {"Font"} |-> Ref(font_dict_id)]
        xobject_stream ==
            StreamNew([k \in {"Type", "Subtype", "BBox", "Resources"} |->
                      CASE k = "Type" -> Name("XObject")
                        [] k = "Subtype" -> Name("Form")
                        [] k = "BBox" -> Box(0, 0, A4Width, A4Height)
                        [] k = "Resources" -> Dict(resources)],
                   Encode(ops))
    IN  AddObject(doc1, xobject_stream)

-----------------------------------------------------------------------------
(* overlay.rs: stamp_page *)

\* the closure to_f64; Err is ok = FALSE
to_f64(obj) ==
    CASE obj.type = "Integer" -> [ok |-> TRUE, v |-> obj.i * Pt]
      [] obj.type = "Real" -> [ok |-> TRUE, v |-> obj.r]
      [] OTHER -> [ok |-> FALSE, v |-> 0]

\* a slip: a page without MediaBox taken to be of the canvas size
OriginalSizeDefaulting(page) ==
    IF "MediaBox" \notin DOMAIN page
    THEN [ok |-> TRUE, width |-> A4Width * Pt, height |-> A4Height * Pt]
    ELSE LET original_mediabox == page["MediaBox"]
         IN IF original_mediabox.type = "Array" /\ Len(original_mediabox.arr) = 4
            THEN LET arr == original_mediabox.arr
                     x1 == to_f64(arr[1])
                     y1 == to_f64(arr[2])
                     x2 == to_f64(arr[3])
                     y2 == to_f64(arr[4])
                 IN [ok |-> x1.ok /\ y1.ok /\ x2.ok /\ y2.ok,
                     width |-> x2.v - x1.v, height |-> y2.v - y1.v]
            ELSE [ok |-> FALSE, width |-> 0, height |-> 0]

\* (actual_width, actual_height) read from the page's own MediaBox
OriginalSize(page) ==
    IF "MediaBox" \notin DOMAIN page
    THEN [ok |-> FALSE, width |-> 0, height |-> 0]
    ELSE LET original_mediabox == page["MediaBox"]
         IN IF original_mediabox.type = "Array" /\ Len(original_mediabox.arr) = 4
            THEN LET arr == original_mediabox.arr
                     x1 == to_f64(arr[1])
                     y1 == to_f64(arr[2])
                     x2 == to_f64(arr[3])
                     y2 == to_f64(arr[4])
                 IN [ok |-> x1.ok /\ y1.ok /\ x2.ok /\ y2.ok,
                     width |-> x2.v - x1.v, height |-> y2.v - y1.v]
            ELSE [ok |-> FALSE, width |-> 0, height |-> 0]

\* a slip: width and height swapped
CanvasMediaBoxSwapped == Box(0, 0, A4Height, A4Width)

\* the MediaBox every stamped page gets
CanvasMediaBox == Box(0, 0, A4Width, A4Height)

\* a slip: the marks keyed off the canvas rectangle
TrimXOfCanvas(tw) == 0

TrimX(tw) == (A4Width * Pt - tw) \div 2
TrimY(th) == (A4Height * Pt - th) \div 2

\* res_dict: the page's Resources, resolved; None is some = FALSE
ResDict(doc, new_page) ==
    IF "Resources" \notin DOMAIN new_page THEN [some |-> FALSE, d |-> EmptyDict]
    ELSE LET res == new_page["Resources"]
         IN CASE res.type = "Dictionary" -> [some |-> TRUE, d |-> res.dict]
              [] res.type = "Reference" ->
                    IF HasObject(doc, res.id) /\ doc.objects[res.id].type = "Dictionary"
                    THEN [some |-> TRUE, d |-> doc.objects[res.id].dict]
                    ELSE [some |-> FALSE, d |-> EmptyDict]
              [] OTHER -> [some |-> FALSE, d |-> EmptyDict]

\* existing_xobjects: the XObject table of res_dict, resolved
ExistingXObjects(doc, res_dict) ==
    IF ~res_dict.some \/ "XObject" \notin DOMAIN res_dict.d
    THEN [some |-> FALSE, d |-> EmptyDict]
    ELSE LET xobj_obj == res_dict.d["XObject"]
         IN CASE xobj_obj.type = "Dictionary" -> [some |-> TRUE, d |-> xobj_obj.dict]
              [] xobj_obj.type = "Reference" ->
                    IF HasObject(doc, xobj_obj.id)
                         /\ doc.objects[xobj_obj.id].type = "Dictionary"
                    THEN [some |-> TRUE, d |-> doc.objects[xobj_obj.id].dict]
                    ELSE [some |-> FALSE, d |-> EmptyDict]
              [] OTHER -> [some |-> FALSE, d |-> EmptyDict]

\* xobject_dict: the existing XObjects, then the overlay set under its name
XObjectDict(existing, overlay_xobject_id) ==
    LET copied == IF existing.some THEN DictExtend(EmptyDict, existing.d) ELSE EmptyDict
    IN DictSet(copied, "Overlay", Ref(overlay_xobject_id))

\* new_resources: res_dict's entries, XObject replaced by the new table
NewResources(res_dict, xobject_dict_id) ==
    LET copied == IF res_dict.some THEN DictExtend(EmptyDict, res_dict.d) ELSE EmptyDict
    IN DictSet(copied, "XObject", Ref(xobject_dict_id))

\* a slip: the free width not halved
ContentXNotHalved(actual_width) == A4Width * Pt - actual_width

ContentX(actual_width) == (A4Width * Pt - actual_width) \div 2
ContentY(actual_height) == (A4Height * Pt - actual_height) \div 2

\* a slip: the graphics state saved before the overlay is invoked
StartOpsSaveFirst(content_x, content_y) ==
    << Operation("q", <<>>),
       Operation("Do", <<Name("Overlay")>>),
       Operation("cm", <<Integer(1), Integer(0), Integer(0), Integer(1),
                         Real(content_x), Real(content_y)>>) >>

StartOps(content_x, content_y) ==
    << Operation("Do", <<Name("Overlay")>>),
       Operation("q", <<>>),
       Operation("cm", <<Integer(1), Integer(0), Integer(0), Integer(1),
                         Real(content_x), Real(content_y)>>) >>

EndOps == << Operation("Q", <<>>) >>

\* a slip: the end wrapper pushed before the original contents
ContentsArrayEndFirst(new_page, start_id, end_id) ==
    LET original ==
            IF "Contents" \notin DOMAIN new_page THEN <<>>
            ELSE LET original_contents == new_page["Contents"]
                 IN CASE original_contents.type = "Reference" -> <<original_contents>>
                      [] original_contents.type = "Array" -> original_contents.arr
                      [] OTHER -> <<>>
    IN <<Ref(start_id)>> \o <<Ref(end_id)>> \o original

\* contents_array: the original Contents between the two wrappers
ContentsArray(new_page, start_id, end_id) ==
    LET original ==
            IF "Contents" \notin DOMAIN new_page THEN <<>>
            ELSE LET original_contents == new_page["Contents"]
                 IN CASE original_contents.type = "Reference" -> <<original_contents>>
                      [] original_contents.type = "Array" -> original_contents.arr
                      [] OTHER -> <<>>
    IN <<Ref(start_id)>> \o original \o <<Ref(end_id)>>

\* Result of stamp_page: ok = FALSE is Err, and then doc is as it was given
stamp_page(doc, page_id, tw, th, font, width, timestamp, page_num) ==
    IF ~HasObject(doc, page_id) \/ doc.objects[page_id].type # "Dictionary"
    THEN [ok |-> FALSE, doc |-> doc]
    ELSE
    LET page == doc.objects[page_id].dict
        size == OriginalSize(page)
    IN IF ~size.ok THEN [ok |-> FALSE, doc |-> doc]
       ELSE
       LET page1 == DictSet(page, "MediaBox", CanvasMediaBox)
           doc1 == create_overlay_xobject(doc, page_num, TrimX(tw), TrimY(th),
                                          tw, th, font, width, timestamp)
           overlay_xobject_id == doc1.max_id
           res_dict == ResDict(doc1, page1)
           xobject_dict == XObjectDict(ExistingXObjects(doc1, res_dict), overlay_xobject_id)
           doc2 == AddObject(doc1, Dict(xobject_dict))
           xobject_dict_id == doc2.max_id
           page2 == DictSet(page1, "Resources", Dict(NewResources(res_dict, xobject_dict_id)))
           start_ops == StartOps(ContentX(size.width), ContentY(size.height))
           doc3 == AddObject(doc2, StreamNew(EmptyDict, Encode(start_ops)))
           start_id == doc3.max_id
           doc4 == AddObject(doc3, StreamNew(EmptyDict, Encode(EndOps)))
           end_id == doc4.max_id
           page3 == DictSet(page2, "Contents", Arr(ContentsArray(page2, start_id, end_id)))
       IN [ok |-> TRUE,
           doc |-> [objects |-> (page_id :> Dict(page3)) @@ doc4.objects,
                    max_id |-> doc4.max_id]]

-----------------------------------------------------------------------------
(* fonts.rs: embed_font *)

\* metrics ttf_parser reads from the font file; advance is of glyph '0'
Faces ==
    { [units_per_em |-> 1000, advance |-> a, x_min |-> 0, y_min |-> -190,
       x_max |-> a, y_max |-> 859, ascender |-> 859, descender |-> -190,
       cap_height |-> 623] : a \in {500, 600} }

\* Returns the document with the three font objects; font_id is the new max_id
embed_font(doc, face) ==
    LET FIRST_CHAR == 32
        LAST_CHAR == 126
        widths == [i \in 1..(LAST_CHAR - FIRST_CHAR + 1) |-> Integer(face.advance)]
        font_stream == StreamNew([k \in {"Length1"} |-> Integer(1)], <<Str("font_data")>>)
        doc1 == AddObject(doc, font_stream)
        font_stream_id == doc1.max_id
        font_descriptor ==
            [k \in {"Type", "FontName", "Flags", "FontBBox", "ItalicAngle", "Ascent",
                    "Descent", "CapHeight", "StemV", "FontFile2"} |->
               CASE k = "Type" -> Name("FontDescriptor")
                 [] k = "FontName" -> Name("Inconsolata-Regular")
                 [] k = "Flags" -> Integer(32)
                 [] k = "FontBBox" -> Box(face.x_min, face.y_min, face.x_max, face.y_max)
                 [] k = "ItalicAngle" -> Integer(0)
                 [] k = "Ascent" -> Integer(face.ascender)
                 [] k = "Descent" -> Integer(face.descender)
                 [] k = "CapHeight" -> Integer(face.cap_height)
                 [] k = "StemV" -> Integer(80)
                 [] k = "FontFile2" -> Ref(font_stream_id)]
        doc2 == AddObject(doc1, Dict(font_descriptor))
        font_descriptor_id == doc2.max_id
        font_dict ==
            [k \in {"Type", "Subtype", "BaseFont", "FontDescriptor", "Encoding",
                    "FirstChar", "LastChar", "Widths"} |->
               CASE k = "Type" -> Name("Font")
                 [] k = "Subtype" -> Name("TrueType")
                 [] k = "BaseFont" -> Name("Inconsolata-Regular")
                 [] k = "FontDescriptor" -> Ref(font_descriptor_id)
                 [] k = "Encoding" -> Name("WinAnsiEncoding")
                 [] k = "FirstChar" -> Integer(32)
                 [] k = "LastChar" -> Integer(126)
                 [] k = "Widths" -> Arr(widths)]
    IN AddObject(doc2, Dict(font_dict))

\* char_width = advance_width_units / units_per_em, in 1/Milli
CharWidth(face) == (face.advance * Milli) \div face.units_per_em

-----------------------------------------------------------------------------
(* overlay.rs: combine *)

\* the formatted local time; computed once, before the pages
Timestamp == "2026-11-01 09:00:00 AEDT"

\* Stream::compress: a stream with no Filter is deflated
Deflate(stream) ==
    IF "Filter" \in DOMAIN stream.dict THEN stream
    ELSE LET deflated == <<[type |-> "Deflated", data |-> stream.content]>>
         IN Stream(DictSet(DictSet(stream.dict, "Filter", Name("FlateDecode")),
                           "Length", Integer(Len(deflated))),
                   deflated)

\* Document::compress
Compress(objs) ==
    [id \in DOMAIN objs |-> IF objs[id].type = "Stream" THEN Deflate(objs[id]) ELSE objs[id]]

\* the trim sizes combine is called with: main's "trade", and 5 by 8 inches
TrimSizes == { <<TradeWidth, TradeHeight>>, <<360, 576>> }

Init ==
    /\ manuscript \in Inputs
    /\ \E t \in TrimSizes :
          /\ t # <<TradeWidth, TradeHeight>> => Len(manuscript) <= MaxOtherTrimPages
          /\ trim_width = t[1] * Pt
          /\ trim_height = t[2] * Pt
    /\ pc = "load"
    /\ objects = [id \in {} |-> Absent]
    /\ max_id = 0
    /\ font_id = 0
    /\ char_width = 0
    /\ page_ids = <<>>
    /\ index = 0
    /\ calls = <<>>
    /\ compressed = 0
    /\ output = [id \in {} |-> Absent]
    /\ saved = FALSE
    /\ result = "running"

Return(r) ==
    /\ pc' = "returned"
    /\ result' = r

\* line 33: Document::load(manuscript_path)?
Load ==
    /\ pc = "load"
    /\ \E ok \in BOOLEAN :
         IF ok
         THEN /\ objects' = LoadedObjects(manuscript)
              /\ max_id' = LoadedMaxId(manuscript)
              /\ pc' = "embed"
              /\ UNCHANGED result
         ELSE /\ Return("load error")
              /\ UNCHANGED <<objects, max_id>>
    /\ UNCHANGED <<manuscript, trim_width, trim_height, font_id, char_width, page_ids,
                   index, calls, compressed, output, saved>>

\* line 38: fonts::embed_font(&mut manuscript_document)?
EmbedFont ==
    /\ pc = "embed"
    /\ \/ \E face \in Faces :
            LET doc == embed_font(Doc(objects, max_id), face)
            IN /\ objects' = doc.objects
               /\ max_id' = doc.max_id
               /\ font_id' = doc.max_id
               /\ char_width' = CharWidth(face)
               /\ pc' = "pages"
               /\ UNCHANGED result
       \/ /\ Return("font error")
          /\ UNCHANGED <<objects, max_id, font_id, char_width>>
    /\ UNCHANGED <<manuscript, trim_width, trim_height, page_ids, index, calls,
                   compressed, output, saved>>

\* line 58: page_iter().collect()
CollectPages ==
    /\ pc = "pages"
    /\ page_ids' = PageIter(objects)
    /\ index' = 0
    /\ pc' = "stamp"
    /\ UNCHANGED <<manuscript, trim_width, trim_height, objects, max_id, font_id,
                   char_width, calls, compressed, output, saved, result>>

\* a slip: the pages taken from the back
NextPageFromBack(ids, i) == ids[Len(ids) - i]

\* page_ids.iter().enumerate(): the page of iteration number i, counted from 0
NextPage(ids, i) == ids[i + 1]

\* a slip: the font embedded again for each page
StampNextEmbedding ==
    /\ pc = "stamp"
    /\ index < Len(page_ids)
    /\ LET page_id == NextPage(page_ids, index)
           face == CHOOSE f \in Faces : CharWidth(f) = char_width
           doc == embed_font(Doc(objects, max_id), face)
           r == stamp_page(doc, page_id, trim_width, trim_height,
                           doc.max_id, char_width, Timestamp, index + 1)
       IN /\ calls' = Append(calls, page_id)
          /\ IF r.ok
             THEN /\ objects' = r.doc.objects
                  /\ max_id' = r.doc.max_id
                  /\ index' = index + 1
                  /\ UNCHANGED <<pc, result>>
             ELSE /\ Return("page error")
                  /\ UNCHANGED <<objects, max_id, index>>
    /\ UNCHANGED <<manuscript, trim_width, trim_height, font_id, char_width, page_ids,
                   compressed, output, saved>>

\* a slip: the compression pass run inside the loop, after the page
StampNextCompressing ==
    /\ pc = "stamp"
    /\ index < Len(page_ids)
    /\ LET page_id == NextPage(page_ids, index)
           r == stamp_page(Doc(objects, max_id), page_id, trim_width, trim_height,
                           font_id, char_width, Timestamp, index + 1)
       IN /\ calls' = Append(calls, page_id)
          /\ IF r.ok
             THEN /\ objects' = Compress(r.doc.objects)
                  /\ max_id' = r.doc.max_id
                  /\ index' = index + 1
                  /\ compressed' = compressed + 1
                  /\ UNCHANGED <<pc, result>>
             ELSE /\ Return("page error")
                  /\ UNCHANGED <<objects, max_id, index, compressed>>
    /\ UNCHANGED <<manuscript, trim_width, trim_height, font_id, char_width, page_ids,
                   output, saved>>

\* a slip: a page whose stamp_page fails is skipped and the batch goes on
StampNextSkipping ==
    /\ pc = "stamp"
    /\ index < Len(page_ids)
    /\ LET page_id == NextPage(page_ids, index)
           r == stamp_page(Doc(objects, max_id), page_id, trim_width, trim_height,
                           font_id, char_width, Timestamp, index + 1)
       IN /\ calls' = Append(calls, page_id)
          /\ objects' = r.doc.objects
          /\ max_id' = r.doc.max_id
          /\ index' = index + 1
          /\ UNCHANGED <<pc, result>>
    /\ UNCHANGED <<manuscript, trim_width, trim_height, font_id, char_width, page_ids,
                   compressed, output, saved>>

\* lines 59-70: one iteration of the loop
StampNext ==
    /\ pc = "stamp"
    /\ index < Len(page_ids)
    /\ LET page_id == NextPage(page_ids, index)
           r == stamp_page(Doc(objects, max_id), page_id, trim_width, trim_height,
                           font_id, char_width, Timestamp, index + 1)
       IN /\ calls' = Append(calls, page_id)
          /\ IF r.ok
             THEN /\ objects' = r.doc.objects
                  /\ max_id' = r.doc.max_id
                  /\ index' = index + 1
                  /\ UNCHANGED <<pc, result>>
             ELSE /\ Return("page error")
                  /\ UNCHANGED <<objects, max_id, index>>
    /\ UNCHANGED <<manuscript, trim_width, trim_height, font_id, char_width, page_ids,
                   compressed, output, saved>>

\* line 72: manuscript_document.compress()
CompressDocument ==
    /\ pc = "stamp"
    /\ index = Len(page_ids)
    /\ objects' = Compress(objects)
    /\ compressed' = compressed + 1
    /\ pc' = "save"
    /\ UNCHANGED <<manuscript, trim_width, trim_height, max_id, font_id, char_width,
                   page_ids, index, calls, output, saved, result>>

\* line 75: manuscript_document.save(output_path)?
Save ==
    /\ pc = "save"
    /\ saved' = TRUE
    /\ \E ok \in BOOLEAN :
         IF ok
         THEN /\ output' = objects
              /\ Return("ok")
         ELSE /\ UNCHANGED output
              /\ Return("save error")
    /\ UNCHANGED <<manuscript, trim_width, trim_height, objects, max_id, font_id,
                   char_width, page_ids, index, calls, compressed>>

Next == Load \/ EmbedFont \/ CollectPages \/ StampNext \/ CompressDocument \/ Save

Spec == Init /\ [][Next]_vars

-----------------------------------------------------------------------------
(* Reading a state, for the properties below *)

\* A step that is a call of stamp_page, and one that returned Ok
StampCall == pc = "stamp" /\ calls' # calls
StampOk == StampCall /\ index' = index + 1

\* the page stamp_page is called with in the current state
CurrentPage == page_ids[index + 1]

\* a number of a MediaBox, in 1/Pt points
PointsOf(obj) == IF obj.type = "Integer" THEN obj.i * Pt ELSE obj.r

\* the elements an original Contents contributes
OriginalContents(page) ==
    IF "Contents" \notin DOMAIN page THEN <<>>
    ELSE IF page["Contents"].type = "Reference" THEN <<page["Contents"]>>
    ELSE IF page["Contents"].type = "Array" THEN page["Contents"].arr
    ELSE <<>>

\* the streams at the two ends of a stamped page's Contents
StartStream(objs, pid) == objs[objs[pid].dict["Contents"].arr[1].id]
EndStream(objs, pid) ==
    LET c == objs[pid].dict["Contents"].arr IN objs[c[Len(c)].id]

\* pages of the input that have been stamped so far
Stamped == 1..index

-----------------------------------------------------------------------------
(* C1: after stamp_page succeeds on a page whose Contents is a Reference   *)
(* or an Array, the page's Contents is the Array [start, originals..., end]: *)
(* the originals unchanged and in order, start and end two distinct fresh    *)
(* ids holding the start wrapper and the end wrapper.                        *)
C1_ContentsSandwich ==
    [][ StampOk =>
          LET old == objects[CurrentPage].dict
              new == objects'[CurrentPage].dict
          IN ("Contents" \in DOMAIN old /\ old["Contents"].type \in {"Reference", "Array"})
             => LET orig == OriginalContents(old)
                    c == new["Contents"].arr
                    n == Len(orig)
                IN /\ new["Contents"].type = "Array"
                   /\ Len(c) = n + 2
                   /\ \A i \in 1..n : c[i + 1] = orig[i]
                   /\ c[1].type = "Reference" /\ c[n + 2].type = "Reference"
                   /\ c[1].id \notin DOMAIN objects
                   /\ c[n + 2].id \notin DOMAIN objects
                   /\ c[1].id # c[n + 2].id
                   /\ objects'[c[1].id].type = "Stream"
                   /\ objects'[c[1].id].content[2] = Op("Do")
                   /\ objects'[c[n + 2].id].type = "Stream"
                   /\ objects'[c[n + 2].id].content = <<Op("Q")>>
      ]_vars

C1_Witness ==
    \E i \in Stamped :
        /\ manuscript[i].contents = Arr(<<Ref(3), Ref(4)>>)
        /\ Len(objects[page_ids[i]].dict["Contents"].arr) = 4
        /\ objects[page_ids[i]].dict["Contents"].arr[2] = Ref(3)
        /\ objects[page_ids[i]].dict["Contents"].arr[3] = Ref(4)

(* C2: a call of stamp_page leaves every object that was in the store, other *)
(* than the page dictionary at page_id, as it was; it adds objects only at   *)
(* ids that were not in the store and keeps the page at its id.              *)
C2_ContentPreserved ==
    [][ StampCall =>
          /\ DOMAIN objects \subseteq DOMAIN objects'
          /\ \A id \in DOMAIN objects :
                id # CurrentPage => objects'[id] = objects[id]
          /\ \A id \in DOMAIN objects' \ DOMAIN objects : id > max_id
          /\ objects'[CurrentPage].type = "Dictionary"
      ]_vars

C2_Witness ==
    /\ pc = "stamp"
    /\ index >= 2
    /\ \A i \in Stamped : Ref(3) \in { objects[page_ids[i]].dict["Contents"].arr[j] :
                                         j \in 1..Len(objects[page_ids[i]].dict["Contents"].arr) }
    /\ objects[3] = LoadedObjects(manuscript)[3]
    /\ objects[3].content = <<Name("Im1"), Op("Do")>>

\* the page ids of the input, in the file's page order
InputOrder == [i \in 1..Len(manuscript) |-> PageIdOf(i)]

NoDuplicates(seq) == \A i, j \in 1..Len(seq) : seq[i] = seq[j] => i = j

(* C3: combine calls stamp_page with the page ids in the order page_iter     *)
(* yields them, each once; the page tree keeps its entries and their order,  *)
(* so the saved document's page order is the input's; with no page, nothing  *)
(* is stamped and the document is still compressed and saved.                *)
C3_OrderPreserved ==
    /\ Len(calls) <= Len(page_ids)
    /\ \A i \in 1..Len(calls) : calls[i] = page_ids[i]
    /\ NoDuplicates(calls)
    /\ pc \in {"stamp", "save"} => page_ids = InputOrder
    /\ pc \in {"embed", "pages", "stamp", "save"} => PageIter(objects) = InputOrder
    /\ pc \in {"stamp", "save"} => Len(calls) = index
    /\ pc = "save" => calls = InputOrder
    /\ result = "ok" =>
          /\ calls = InputOrder
          /\ PageIter(output) = InputOrder
          /\ compressed = 1
          /\ saved
    /\ (pc = "save" /\ Len(manuscript) = 0) => (calls = <<>> /\ compressed = 1)

C3_Witness ==
    /\ result = "ok"
    /\ Len(manuscript) = 5
    /\ calls = <<11, 12, 13, 14, 15>>
    /\ PageIter(output) = <<11, 12, 13, 14, 15>>

(* C4: save is called only after the load, the font embedding and stamp_page *)
(* of every page succeeded; an error of any of them is returned at once,     *)
(* with no later page stamped, save not called and no output written.        *)
C4_NoPartialOutput ==
    /\ saved =>
          /\ DOMAIN objects # {}
          /\ font_id \in DOMAIN objects
          /\ index = Len(manuscript)
          /\ calls = InputOrder
          /\ \A i \in 1..Len(manuscript) :
                /\ OriginalSize(PageDict(manuscript[i]).dict).ok
                /\ objects[PageIdOf(i)].dict["MediaBox"] = CanvasMediaBox
    /\ result \in {"load error", "font error", "page error"} =>
          /\ pc = "returned"
          /\ ~saved
          /\ compressed = 0
          /\ DOMAIN output = {}
    /\ result = "load error" => (DOMAIN objects = {} /\ calls = <<>>)
    /\ result = "font error" => calls = <<>>
    /\ result = "page error" =>
          /\ Len(calls) = index + 1
          /\ ~OriginalSize(PageDict(manuscript[index + 1]).dict).ok
          /\ \A i \in 1..index : OriginalSize(PageDict(manuscript[i]).dict).ok
    /\ DOMAIN output # {} => result = "ok"

C4_Witness ==
    /\ result = "page error"
    /\ index = 2
    /\ Len(manuscript) = 4
    /\ ~saved

\* what a stream holds, read through compress
Payload(stream) ==
    IF Len(stream.content) = 1 /\ stream.content[1].type = "Deflated"
    THEN stream.content[1].data
    ELSE stream.content

\* the original MediaBox of input page i, as x1, y1, x2, y2 in 1/Pt points
OriginalBox(i) == [k \in 1..4 |-> PointsOf(manuscript[i].mediabox.arr[k])]

\* the operands tx, ty of the cm operation that ends the start stream of page i
Translation(objs, i) ==
    LET c == Payload(StartStream(objs, PageIdOf(i)))
    IN <<c[Len(c) - 2], c[Len(c) - 1]>>

(* C5: the cm operation of a stamped page's start stream is 1 0 0 1 tx ty    *)
(* with tx = (595 - (x2 - x1))/2 and ty = (842 - (y2 - y1))/2 for the page's *)
(* original MediaBox [x1 y1 x2 y2]; for a 432 by 648 page it is 81.5, 97.0.  *)
C5_CenteringTranslation ==
    \A i \in Stamped :
        LET b == OriginalBox(i)
            c == Payload(StartStream(objects, PageIdOf(i)))
            n == Len(c)
            t == Translation(objects, i)
        IN /\ n >= 7
           /\ c[n] = Op("cm")
           /\ SubSeq(c, n - 6, n - 3) = <<Integer(1), Integer(0), Integer(0), Integer(1)>>
           /\ t[1].type = "Real" /\ t[2].type = "Real"
           /\ 2 * t[1].r = 595 * Pt - (b[3] - b[1])
           /\ 2 * t[2].r = 842 * Pt - (b[4] - b[2])
           /\ (b[3] - b[1] = 432 * Pt /\ b[4] - b[2] = 648 * Pt)
                 => (10 * t[1].r = 815 * Pt /\ t[2].r = 97 * Pt)

C5_Witness ==
    \E i \in Stamped :
        /\ manuscript[i].mediabox = Box(10, 20, 442, 668)
        /\ Translation(objects, i) = <<Real((815 * Pt) \div 10), Real(97 * Pt)>>
        /\ \E j \in Stamped :
              /\ manuscript[j].mediabox.arr[3].type = "Real"
              /\ 2 * Translation(objects, j)[1].r = 595 * Pt - manuscript[j].mediabox.arr[3].r

(* C6: the original MediaBox rectangle, moved by the start stream's          *)
(* translation, has equal left and right margins and equal bottom and top    *)
(* margins inside the canvas [0 0 595 842], whatever its origin and size.    *)
C6_ContentCentered ==
    \A i \in Stamped :
        LET b == OriginalBox(i)
            t == Translation(objects, i)
        IN /\ b[1] + t[1].r = 595 * Pt - (b[3] + t[1].r)
           /\ b[2] + t[2].r = 842 * Pt - (b[4] + t[2].r)

(* C7: in the document combine saves, and in the store once a page is        *)
(* stamped, the page's MediaBox is [0 0 595 842] whatever it was; the        *)
(* translation still comes from the original size, read before the rewrite.  *)
C7_CanvasMediaBox ==
    /\ \A i \in Stamped :
          /\ objects[PageIdOf(i)].dict["MediaBox"] =
                Arr(<<Integer(0), Integer(0), Integer(595), Integer(842)>>)
          /\ OriginalBox(i)[3] - OriginalBox(i)[1] # 595 * Pt
                => Translation(objects, i)[1].r # 0
    /\ result = "ok" =>
          \A i \in 1..Len(manuscript) :
              /\ output[PageIdOf(i)].dict["MediaBox"] =
                    Arr(<<Integer(0), Integer(0), Integer(595), Integer(842)>>)
              /\ OriginalBox(i)[3] - OriginalBox(i)[1] # 595 * Pt
                    => Translation(output, i)[1].r # 0

C7_Witness ==
    /\ result = "ok"
    /\ Len(manuscript) >= 3
    /\ \E i, j \in 1..Len(manuscript) :
          /\ manuscript[i].mediabox = Box(0, 0, 432, 648)
          /\ manuscript[j].mediabox.arr[3].type = "Real"
          /\ output[PageIdOf(i)].dict["MediaBox"] = Box(0, 0, 595, 842)
          /\ output[PageIdOf(j)].dict["MediaBox"] = Box(0, 0, 595, 842)

(* C8: a page that lacks MediaBox or Contents is a fatal structural error:   *)
(* stamp_page returns an error for it, the page dictionary in the store is   *)
(* left as it was, and the batch is aborted.                                 *)
C8_MissingKeyIsFatal ==
    /\ \A i \in Stamped :
          manuscript[i].mediabox # Absent /\ manuscript[i].contents # Absent
    /\ result = "page error" =>
          /\ objects[PageIdOf(index + 1)] = PageDict(manuscript[index + 1])
          /\ pc = "returned"
          /\ ~saved

(* C8, amended: a page that lacks MediaBox is a fatal structural error:      *)
(* stamp_page returns an error for it, the store is left as it was (the page *)
(* dictionary unchanged, no object added), and the batch is aborted with     *)
(* save not called.  A page that lacks Contents is not an error: it is       *)
(* stamped, and its Contents becomes the two wrappers [start, end].          *)
C8_MissingMediaBoxIsFatal ==
    /\ \A i \in Stamped : manuscript[i].mediabox # Absent
    /\ result = "page error" =>
          /\ objects[PageIdOf(index + 1)] = PageDict(manuscript[index + 1])
          /\ max_id = LoadedMaxId(manuscript) + 3 + 5 * index
          /\ DOMAIN objects = (1..9) \cup (11..max_id)
          /\ pc = "returned"
          /\ ~saved
          /\ DOMAIN output = {}
    /\ \A i \in 1..Len(manuscript) :
          (manuscript[i].mediabox = Absent /\ Len(calls) >= i) =>
              (result = "page error" /\ index = i - 1)
    /\ \A i \in Stamped :
          manuscript[i].contents = Absent =>
              LET c == objects[PageIdOf(i)].dict["Contents"].arr
              IN /\ Len(c) = 2
                 /\ Payload(objects[c[1].id])[2] = Op("Do")
                 /\ Payload(objects[c[2].id]) = <<Op("Q")>>

C8_Witness ==
    /\ result = "page error"
    /\ index >= 1
    /\ manuscript[index + 1].mediabox = Absent
    /\ "MediaBox" \notin DOMAIN objects[PageIdOf(index + 1)].dict
    /\ \E i \in Stamped : manuscript[i].contents = Absent

\* the XObject table input page i had on loading, resolved
OwnXObjects(i) ==
    LET doc == Doc(LoadedObjects(manuscript), LoadedMaxId(manuscript))
    IN ExistingXObjects(doc, ResDict(doc, PageDict(manuscript[i]).dict))

\* the XObject table of a stamped page
StampedXObjects(objs, i) ==
    objs[objs[PageIdOf(i)].dict["Resources"].dict["XObject"].id].dict

(* C9: every local name the page's own XObject table (inline or behind a     *)
(* Reference) bound before stamp_page is bound to the same object in the     *)
(* page's XObject table after it, the name "Overlay" included.               *)
C9_BaseWins ==
    \A i \in Stamped :
        LET old == OwnXObjects(i).d
            new == StampedXObjects(objects, i)
        IN \A n \in DOMAIN old : n \in DOMAIN new /\ new[n] = old[n]

\* the payloads of the streams a Contents lists, one after the other
RECURSIVE ConcatStreams(_, _)
ConcatStreams(objs, arr) ==
    IF arr = <<>> THEN <<>>
    ELSE LET r == Head(arr)
             here == IF r.type = "Reference" /\ r.id \in DOMAIN objs
                        /\ objs[r.id].type = "Stream"
                     THEN Payload(objs[r.id]) ELSE <<>>
         IN here \o ConcatStreams(objs, Tail(arr))

Count(seq, x) == Cardinality({ k \in 1..Len(seq) : seq[k] = x })

(* C10: the start wrapper holds Do /Overlay, then q, then cm, in this order; *)
(* the end wrapper holds the single operation Q; in the concatenated         *)
(* Contents the overlay is drawn before the q, the wrappers add one q and    *)
(* one Q, and the original content lies between that q and that Q.           *)
C10_WrapperOrder ==
    \A i \in Stamped :
        LET s == Payload(StartStream(objects, PageIdOf(i)))
            e == Payload(EndStream(objects, PageIdOf(i)))
            all == ConcatStreams(objects, objects[PageIdOf(i)].dict["Contents"].arr)
            orig == ConcatStreams(objects, OriginalContents(PageDict(manuscript[i]).dict))
        IN /\ Len(s) = 10
           /\ SubSeq(s, 1, 3) = <<Name("Overlay"), Op("Do"), Op("q")>>
           /\ \A k \in 4..9 : s[k].type \in {"Integer", "Real"}
           /\ s[10] = Op("cm")
           /\ e = <<Op("Q")>>
           /\ Count(s \o e, Op("q")) = 1 /\ Count(s \o e, Op("Q")) = 1
           /\ Len(all) = 10 + Len(orig) + 1
           /\ all[2] = Op("Do") /\ all[3] = Op("q") /\ all[10] = Op("cm")
           /\ SubSeq(all, 11, 10 + Len(orig)) = orig
           /\ all[Len(all)] = Op("Q")

C10_Witness ==
    \E i \in Stamped :
        /\ manuscript[i].contents = Arr(<<Ref(3), Ref(4)>>)
        /\ ConcatStreams(objects, objects[PageIdOf(i)].dict["Contents"].arr)
             = << Name("Overlay"), Op("Do"), Op("q"),
                  Integer(1), Integer(0), Integer(0), Integer(1),
                  Real((815 * Pt) \div 10), Real(97 * Pt), Op("cm"),
                  Name("Im1"), Op("Do"), Name("Overlay"), Op("Do"),
                  Op("Q") >>

\* the payload of the overlay Form of stamped page i
OverlayPayload(objs, i) == Payload(objs[StampedXObjects(objs, i)["Overlay"].id])

\* the tokens of the crop marks: w, G and eight stroked lines
CropMarkTokens(objs, i) == SubSeq(OverlayPayload(objs, i), 1, 60)

\* the eight lines, each as the set of its two end points
MarkSegments(c) ==
    { { <<c[5 + 7 * k].r, c[6 + 7 * k].r>>, <<c[8 + 7 * k].r, c[9 + 7 * k].r>> } :
        k \in 0..7 }

\* marks 20 long that start 5 outside each corner of the trim rectangle
\* centered on the 595 by 842 canvas
TrimMarks(tw, th) ==
    LET l == (595 * Pt - tw) \div 2
        b == (842 * Pt - th) \div 2
        corners == { <<l, b, -1, -1>>, <<l + tw, b, 1, -1>>,
                     <<l, b + th, -1, 1>>, <<l + tw, b + th, 1, 1>> }
    IN UNION { { { <<k[1] + k[3] * 5 * Pt, k[2]>>, <<k[1] + k[3] * 25 * Pt, k[2]>> },
                 { <<k[1], k[2] + k[4] * 5 * Pt>>, <<k[1], k[2] + k[4] * 25 * Pt>> } } :
               k \in corners }

(* C11: the crop-mark operations of a stamped page's overlay depend on       *)
(* trim_width and trim_height alone: they are the marks of the trim          *)
(* rectangle centered on the canvas, 20 long and starting 5 outside each     *)
(* corner, and any two pages stamped in one run, whatever their original     *)
(* MediaBoxes, have the same crop-mark operations.                           *)
C11_CropMarksFromTrim ==
    \A i \in Stamped :
        LET c == CropMarkTokens(objects, i)
        IN /\ Len(OverlayPayload(objects, i)) >= 60
           /\ SubSeq(c, 1, 4) = <<Real(Pt \div 2), Op("w"), Integer(0), Op("G")>>
           /\ \A k \in 0..7 :
                 /\ c[7 + 7 * k] = Op("m")
                 /\ c[10 + 7 * k] = Op("l")
                 /\ c[11 + 7 * k] = Op("S")
                 /\ \A n \in {5, 6, 8, 9} : c[n + 7 * k].type = "Real"
           /\ MarkSegments(c) = TrimMarks(trim_width, trim_height)
           /\ Cardinality(MarkSegments(c)) = 8
           /\ \A j \in Stamped : CropMarkTokens(objects, j) = c

C11_Witness ==
    /\ index = 2
    /\ trim_width = 360 * Pt
    /\ manuscript[1].mediabox = Box(10, 20, 442, 668)
    /\ manuscript[2].mediabox.arr[3] = Real(450 * Pt + Pt \div 2)
    /\ CropMarkTokens(objects, 1) = CropMarkTokens(objects, 2)
    /\ { <<(235 * Pt) \div 2 - 25 * Pt, 133 * Pt>>, <<(235 * Pt) \div 2 - 5 * Pt, 133 * Pt>> }
          \in MarkSegments(CropMarkTokens(objects, 1))

(* C12: in a run of combine the compression pass runs once, after the last   *)
(* page is stamped and before save; save is the last step: from compress on  *)
(* no object is added or changed, and the saved file is the compressed       *)
(* document.                                                                 *)
C12_CompressThenSave ==
    [][ /\ compressed' # compressed =>
              /\ compressed = 0 /\ compressed' = 1
              /\ pc = "stamp" /\ index = Len(page_ids) /\ calls = page_ids
              /\ ~saved /\ ~saved'
              /\ pc' = "save"
              /\ max_id' = max_id
              /\ DOMAIN objects' = DOMAIN objects
        /\ compressed = 1 =>
              /\ objects' = objects
              /\ max_id' = max_id
              /\ index' = index /\ calls' = calls
        /\ (saved' /\ ~saved) =>
              /\ compressed = 1 /\ compressed' = 1
              /\ pc' = "returned"
              /\ result' = "ok" => output' = objects
        /\ saved => UNCHANGED vars
        /\ result' = "ok" => (saved' /\ compressed' = 1)
      ]_vars

C12_Witness ==
    /\ result = "ok"
    /\ compressed = 1
    /\ Len(manuscript) = 3
    /\ output = objects
    /\ \A i \in 1..3 : "Filter" \in DOMAIN StartStream(output, PageIdOf(i)).dict

\* the ids combine has added to the loaded document
AddedIds(objs) == DOMAIN objs \ DOMAIN LoadedObjects(manuscript)

\* the added dictionaries of a given Type, and the added font-file streams
AddedOfType(objs, t) ==
    { id \in AddedIds(objs) :
        /\ objs[id].type = "Dictionary"
        /\ "Type" \in DOMAIN objs[id].dict
        /\ objs[id].dict["Type"] = Name(t) }

AddedFontFiles(objs) ==
    { id \in AddedIds(objs) :
        objs[id].type = "Stream" /\ "Length1" \in DOMAIN objs[id].dict }

\* what Font/F1 of the overlay Form of stamped page i refers to
OverlayFont(objs, i) ==
    LET form == objs[StampedXObjects(objs, i)["Overlay"].id]
        fonts == form.dict["Resources"].dict["Font"]
    IN objs[fonts.id].dict["F1"]

(* C13: the font is embedded once, before any page is stamped: whatever the  *)
(* number of pages, the document gains one font dictionary, with one         *)
(* descriptor and one font-file stream, and Font/F1 of every stamped page's  *)
(* overlay Form refers to that font's id, which is an object of the          *)
(* document.                                                                 *)
C13_OneFont ==
    /\ font_id = 0 =>
          /\ calls = <<>>
          /\ AddedIds(objects) = {}
    /\ font_id # 0 =>
          /\ AddedOfType(objects, "Font") = {font_id}
          /\ Cardinality(AddedOfType(objects, "FontDescriptor")) = 1
          /\ Cardinality(AddedFontFiles(objects)) = 1
          /\ objects[font_id].dict["FontDescriptor"].id \in AddedOfType(objects, "FontDescriptor")
          /\ objects[objects[font_id].dict["FontDescriptor"].id].dict["FontFile2"].id
                \in AddedFontFiles(objects)
          /\ font_id = LoadedMaxId(manuscript) + 3
    /\ \A i \in Stamped :
          /\ OverlayFont(objects, i) = Ref(font_id)
          /\ font_id \in DOMAIN objects
    /\ result = "ok" =>
          /\ AddedOfType(output, "Font") = {font_id}
          /\ \A i \in 1..Len(manuscript) : OverlayFont(output, i) = Ref(font_id)

C13_Witness ==
    /\ result = "ok"
    /\ Len(manuscript) = 5
    /\ font_id = 18
    /\ AddedOfType(output, "Font") = {18}
    /\ \A i \in 1..5 : OverlayFont(output, i) = Ref(18)

====
